---- MODULE Spec2Model ----
(***************************************************************************)
(* Model of the Secret Santa backend (backend/src/index.ts): the Express   *)
(* route handlers over the Prisma tables.                                  *)
(*                                                                         *)
(* Every `await prisma...` call is one atomic database statement.  A       *)
(* handler with one statement is one action.  A handler whose statements   *)
(* can be separated by another request's write occupies a request slot     *)
(* and takes one step per statement.  The membership lookup that opens     *)
(* most handlers is folded into the statement that follows it: membership  *)
(* rows are never updated or deleted, so the lookup commutes with every    *)
(* other request's statements.  Local computation between two awaits is    *)
(* part of the step of the statement that uses its result.                 *)
(*                                                                         *)
(* resp is the response a handler has just produced; Respond hands it to   *)
(* the client before the server takes its next step.  No handler reads     *)
(* resp, so this ordering removes no behaviour of the tables.              *)
(***************************************************************************)
EXTENDS Integers, Sequences, FiniteSets, TLC

\* ---- bounds ----
NumUsers  == 3      \* registered users 1..NumUsers
NumGroups == 2      \* groups that may be created
NumProcs  == 2      \* multi-statement requests that may be in flight together
MaxCalls  == 5      \* requests accepted in one behaviour
MaxPriority == 1    \* wishlist priorities 0..MaxPriority
MaxText == 1        \* texts 1..MaxText for the string fields of a new wishlist item

Users  == 1..NumUsers
Groups == 1..NumGroups
Procs  == 1..NumProcs
\* a value of :inviteCode / :itemId / :assignmentId that matches no row
NoCode == 0
NoItem == 0

VARIABLES
    group,            \* prisma.group: sequence of rows, a row's index is its id
    groupMembership,  \* prisma.groupMembership: rows in insertion order
    assignment,       \* prisma.assignment: set of rows
    wishlistItem,     \* prisma.wishlistItem: set of rows
    giftClaim,        \* prisma.giftClaim: set of rows
    req,              \* request slots: the running handler, its position and locals
    resp,             \* the response most recently sent
    calls,            \* requests accepted so far
    clock             \* source of item ids and of createdAt / claimedAt

vars == <<group, groupMembership, assignment, wishlistItem, giftClaim, req, resp, calls, clock>>

\* ---- request slots and responses ----
\* before is a history field: the rows deleteMany removed
IdleReq == [op |-> "none", pc |-> "idle", userId |-> 0, groupId |-> 0,
            itemId |-> 0, memberIds |-> <<>>, before |-> {}, data |-> <<>>]

NoResp == [op |-> "none", userId |-> 0, groupId |-> 0, error |-> "none",
           assignments |-> {}, items |-> <<>>, group |-> <<>>]

Quiet == resp = NoResp

\* a new request takes the first free slot (slots are interchangeable)
Free(p) == req[p].pc = "idle" /\ \A q \in 1..(p - 1) : req[q].pc # "idle"

\* the server accepts one more request
Accept == Quiet /\ calls < MaxCalls /\ calls' = calls + 1

\* res.status(...).json({ error }) or res.json(...)
Reply(op, u, g, error) == [NoResp EXCEPT !.op = op, !.userId = u, !.groupId = g,
                                         !.error = error]

\* null
Null == [null |-> TRUE]

\* ---- helpers over the tables ----
\* { id, name, email } of a user, as selected by the includes
UserView(u) == [id |-> u]

\* prisma.groupMembership.findUnique({ where: { userId_groupId } })
Membership(u, g) ==
    {groupMembership[i] : i \in {k \in DOMAIN groupMembership :
        groupMembership[k].userId = u /\ groupMembership[k].groupId = g}}

IsMember(u, g) == Membership(u, g) # {}
IsAdmin(u, g) == \E m \in Membership(u, g) : m.role = "ADMIN"

\* group.members.map(m => m.userId)
MembersOf(g) == SelectSeq(groupMembership, LAMBDA m : m.groupId = g)
MemberIds(g) == [i \in 1..Len(MembersOf(g)) |-> MembersOf(g)[i].userId]
MemberSet(g) == {MemberIds(g)[i] : i \in 1..Len(MemberIds(g))}

\* prisma.assignment.findMany({ where: { groupId } })
AssignmentsOf(g) == {a \in assignment : a.groupId = g}

\* ---- POST /api/groups ----
CreateGroup ==
    /\ Accept
    /\ Len(group) < NumGroups
    /\ \E u \in Users :
        LET id == Len(group) + 1 IN
        /\ group' = Append(group, [createdById |-> u, assignmentMode |-> "RANDOM",
                                   inviteCode |-> id])
        /\ groupMembership' = Append(groupMembership,
                                     [userId |-> u, groupId |-> id, role |-> "ADMIN"])
        /\ resp' = Reply("createGroup", u, id, "OK")
    /\ UNCHANGED <<assignment, wishlistItem, giftClaim, req, clock>>

\* ---- GET /api/groups/:groupId ----
\* include: { creator, members: { include: { user } } }
GroupView(g) ==
    [id |-> g, createdById |-> group[g].createdById,
     assignmentMode |-> group[g].assignmentMode, inviteCode |-> group[g].inviteCode,
     creator |-> UserView(group[g].createdById),
     members |-> [i \in 1..Len(MembersOf(g)) |->
                    [userId |-> MembersOf(g)[i].userId, groupId |-> g,
                     role |-> MembersOf(g)[i].role,
                     user |-> UserView(MembersOf(g)[i].userId)]]]

\* the lookup without the isMember test
GetGroupResponse_NoCheck(u, g) ==
    IF g \notin DOMAIN group THEN Reply("getGroup", u, g, "NotFound")
    ELSE [Reply("getGroup", u, g, "OK") EXCEPT !.group = <<GroupView(g)>>]

\* prisma.group.findUnique, then group.members.some(m => m.userId === userId)
GetGroupResponse(u, g) ==
    IF g \notin DOMAIN group THEN Reply("getGroup", u, g, "NotFound")
    ELSE IF u \notin MemberSet(g) THEN Reply("getGroup", u, g, "Forbidden")
    ELSE [Reply("getGroup", u, g, "OK") EXCEPT !.group = <<GroupView(g)>>]

GetGroup ==
    /\ Accept
    /\ \E u \in Users, g \in Groups : resp' = GetGroupResponse(u, g)
    /\ UNCHANGED <<group, groupMembership, assignment, wishlistItem, giftClaim, req, clock>>

\* ---- POST /api/groups/:inviteCode/join ----
\* prisma.group.findUnique({ where: { inviteCode }, include: { members } })
GroupByCode(code) == {g \in DOMAIN group : group[g].inviteCode = code}

\* the handler without the alreadyMember test
JoinGroupAs_NoMemberCheck(p, u, code) ==
    /\ Accept
    /\ Free(p)
    /\ IF GroupByCode(code) = {}
       THEN /\ resp' = Reply("join", u, 0, "InvalidInviteCode")
            /\ UNCHANGED req
       ELSE LET g == CHOOSE x \in GroupByCode(code) : TRUE IN
            /\ req' = [req EXCEPT ![p] = [IdleReq EXCEPT !.op = "join", !.pc = "create",
                                           !.userId = u, !.groupId = g]]
            /\ UNCHANGED resp
    /\ UNCHANGED <<group, groupMembership, assignment, wishlistItem, giftClaim, clock>>

\* the lookup by invite code and group.members.some(m => m.userId === userId)
JoinGroupAs(p, u, code) ==
    /\ Accept
    /\ Free(p)
    /\ IF GroupByCode(code) = {}
       THEN /\ resp' = Reply("join", u, 0, "InvalidInviteCode")
            /\ UNCHANGED req
       ELSE LET g == CHOOSE x \in GroupByCode(code) : TRUE IN
            IF u \in MemberSet(g)
            THEN /\ resp' = Reply("join", u, g, "AlreadyMember")
                 /\ UNCHANGED req
            ELSE /\ req' = [req EXCEPT ![p] = [IdleReq EXCEPT !.op = "join", !.pc = "create",
                                               !.userId = u, !.groupId = g]]
                 /\ UNCHANGED resp
    /\ UNCHANGED <<group, groupMembership, assignment, wishlistItem, giftClaim, clock>>

JoinGroup(p) == \E u \in Users, code \in {NoCode} \cup Groups : JoinGroupAs(p, u, code)

\* prisma.groupMembership.create: the (userId, groupId) unique index rejects a
\* second row for the pair and the handler answers 500.  The findUnique that
\* follows only builds the response body.  JoinCreate_NoIndex is the create on
\* a table without the index.
JoinCreate_NoIndex(p) ==
    /\ Quiet
    /\ req[p].op = "join" /\ req[p].pc = "create"
    /\ groupMembership' = Append(groupMembership,
            [userId |-> req[p].userId, groupId |-> req[p].groupId, role |-> "MEMBER"])
    /\ resp' = Reply("join", req[p].userId, req[p].groupId, "OK")
    /\ req' = [req EXCEPT ![p] = IdleReq]
    /\ UNCHANGED <<group, assignment, wishlistItem, giftClaim, calls, clock>>

\* a join that stores the creator's role
JoinCreate_Admin(p) ==
    /\ Quiet
    /\ req[p].op = "join" /\ req[p].pc = "create"
    /\ LET u == req[p].userId
           g == req[p].groupId IN
       IF IsMember(u, g)
       THEN /\ resp' = Reply("join", u, g, "Internal")
            /\ UNCHANGED groupMembership
       ELSE /\ groupMembership' = Append(groupMembership,
                                         [userId |-> u, groupId |-> g, role |-> "ADMIN"])
            /\ resp' = Reply("join", u, g, "OK")
    /\ req' = [req EXCEPT ![p] = IdleReq]
    /\ UNCHANGED <<group, assignment, wishlistItem, giftClaim, calls, clock>>

JoinCreate(p) ==
    /\ Quiet
    /\ req[p].op = "join" /\ req[p].pc = "create"
    /\ LET u == req[p].userId
           g == req[p].groupId IN
       IF IsMember(u, g)
       THEN /\ resp' = Reply("join", u, g, "Internal")
            /\ UNCHANGED groupMembership
       ELSE /\ groupMembership' = Append(groupMembership,
                                         [userId |-> u, groupId |-> g, role |-> "MEMBER"])
            /\ resp' = Reply("join", u, g, "OK")
    /\ req' = [req EXCEPT ![p] = IdleReq]
    /\ UNCHANGED <<group, assignment, wishlistItem, giftClaim, calls, clock>>

\* ---- PATCH /api/groups/:groupId/assignment-mode ----
\* z.enum(['RANDOM', 'MANUAL', 'OPEN'])
Modes == {"RANDOM", "MANUAL", "OPEN"}

\* the handler with a membership test in place of the role test
UpdateAssignmentModeAs_AnyMember(u, g, mode) ==
    /\ Accept
    /\ IF ~IsMember(u, g)
       THEN /\ resp' = Reply("updateMode", u, g, "Forbidden")
            /\ UNCHANGED group
       ELSE /\ group' = [group EXCEPT ![g].assignmentMode = mode]
            /\ resp' = [Reply("updateMode", u, g, "OK") EXCEPT
                    !.group = <<[GroupView(g) EXCEPT !.assignmentMode = mode]>>]
    /\ UNCHANGED <<groupMembership, assignment, wishlistItem, giftClaim, req, clock>>

\* the role check and prisma.group.update({ where: { id }, data: { assignmentMode } })
UpdateAssignmentModeAs(u, g, mode) ==
    /\ Accept
    /\ IF ~IsAdmin(u, g)
       THEN /\ resp' = Reply("updateMode", u, g, "Forbidden")
            /\ UNCHANGED group
       ELSE /\ group' = [group EXCEPT ![g].assignmentMode = mode]
            /\ resp' = [Reply("updateMode", u, g, "OK") EXCEPT
                    !.group = <<[GroupView(g) EXCEPT !.assignmentMode = mode]>>]
    /\ UNCHANGED <<groupMembership, assignment, wishlistItem, giftClaim, req, clock>>

UpdateAssignmentMode ==
    \E u \in Users, g \in Groups, mode \in Modes : UpdateAssignmentModeAs(u, g, mode)

\* ---- POST /api/groups/:groupId/assignments/generate ----
\* the Fisher-Yates loop from index i down to 2 (1-based); js[i] is the index
\* Math.floor(Math.random() * (i + 1)) drawn at step i
Swap(s, i, j) == [s EXCEPT ![i] = s[j], ![j] = s[i]]

RECURSIVE FisherYates(_, _, _)
FisherYates(s, i, js) ==
    IF i < 2 THEN s ELSE FisherYates(Swap(s, i, js[i]), i - 1, js)

\* the random indices the loop may draw: js[i] in 1..i
RandomIndices(n) == {js \in [2..n -> 1..n] : \A i \in 2..n : js[i] <= i}

\* the circle without the wrap-around: the last giver keeps its own index
Circle_NoWrap(g, shuffled) ==
    {[groupId |-> g, giverId |-> shuffled[k],
      receiverId |-> shuffled[IF k < Len(shuffled) THEN k + 1 ELSE k]] : k \in 1..Len(shuffled)}

\* shuffled.map((giverId, index) => ({ groupId, giverId, receiverId: shuffled[(index + 1) % n] }))
Circle(g, shuffled) ==
    {[groupId |-> g, giverId |-> shuffled[k],
      receiverId |-> shuffled[(k % Len(shuffled)) + 1]] : k \in 1..Len(shuffled)}

\* the (groupId, giverId) unique index of prisma.assignment; UniqueViolation_Off
\* is a table without the index
SameKey(a, b) == a.groupId = b.groupId /\ a.giverId = b.giverId
UniqueViolation_Off(rows, table) == FALSE

UniqueViolation(rows, table) ==
    \/ \E a \in rows, b \in table : SameKey(a, b)
    \/ \E a \in rows, b \in rows : a # b /\ SameKey(a, b)

\* include: { giver, receiver }
AdminView(a) == [groupId |-> a.groupId, giverId |-> a.giverId, receiverId |-> a.receiverId,
                 giver |-> UserView(a.giverId), receiver |-> UserView(a.receiverId)]

\* memberIds.length < 2; TooFew_One lets a single member through
TooFew_One(memberIds) == Len(memberIds) < 1

TooFew(memberIds) == Len(memberIds) < 2

\* membership check, group lookup and the member count check
GenerateAs(p, u, g) ==
    /\ Accept
    /\ Free(p)
    /\ IF ~IsAdmin(u, g)
       THEN /\ resp' = Reply("generate", u, g, "Forbidden")
            /\ UNCHANGED req
       ELSE IF g \notin DOMAIN group
       THEN /\ resp' = Reply("generate", u, g, "NotFound")
            /\ UNCHANGED req
       ELSE IF TooFew(MemberIds(g))
       THEN /\ resp' = Reply("generate", u, g, "InsufficientMembers")
            /\ UNCHANGED req
       ELSE /\ req' = [req EXCEPT ![p] = [IdleReq EXCEPT !.op = "generate",
                           !.pc = "deleteMany", !.userId = u, !.groupId = g,
                           !.memberIds = MemberIds(g)]]
            /\ UNCHANGED resp
    /\ UNCHANGED <<group, groupMembership, assignment, wishlistItem, giftClaim, clock>>

Generate(p) == \E u \in Users, g \in Groups : GenerateAs(p, u, g)

\* a generate that leaves the old rows in the table
GenerateDeleteMany_Skip(p) ==
    /\ Quiet
    /\ req[p].op = "generate" /\ req[p].pc = "deleteMany"
    /\ req' = [req EXCEPT ![p].pc = "createMany",
                          ![p].before = AssignmentsOf(req[p].groupId)]
    /\ UNCHANGED <<group, groupMembership, assignment, wishlistItem, giftClaim, resp,
                   calls, clock>>

\* prisma.assignment.deleteMany({ where: { groupId } })
GenerateDeleteMany(p) ==
    /\ Quiet
    /\ req[p].op = "generate" /\ req[p].pc = "deleteMany"
    /\ assignment' = assignment \ AssignmentsOf(req[p].groupId)
    /\ req' = [req EXCEPT ![p].pc = "createMany",
                          ![p].before = AssignmentsOf(req[p].groupId)]
    /\ UNCHANGED <<group, groupMembership, wishlistItem, giftClaim, resp, calls, clock>>

\* the shuffle, the circle and prisma.assignment.createMany({ data })
GenerateCreateManyWith(p, data) ==
    /\ Quiet
    /\ req[p].op = "generate" /\ req[p].pc = "createMany"
    /\ IF UniqueViolation(data, assignment)
       THEN /\ resp' = Reply("generate", req[p].userId, req[p].groupId, "Internal")
            /\ req' = [req EXCEPT ![p] = IdleReq]
            /\ UNCHANGED assignment
       ELSE /\ assignment' = assignment \cup data
            /\ req' = [req EXCEPT ![p].pc = "findMany"]
            /\ UNCHANGED resp
    /\ UNCHANGED <<group, groupMembership, wishlistItem, giftClaim, calls, clock>>

\* the assignments array the handler may build from the members it read
Circles(g, memberIds) ==
    {Circle(g, FisherYates(memberIds, Len(memberIds), js)) :
        js \in RandomIndices(Len(memberIds))}

GenerateCreateMany(p) ==
    \E data \in Circles(req[p].groupId, req[p].memberIds) : GenerateCreateManyWith(p, data)

\* prisma.assignment.findMany({ where: { groupId }, include }) and the response
GenerateFindMany(p) ==
    /\ Quiet
    /\ req[p].op = "generate" /\ req[p].pc = "findMany"
    /\ resp' = [Reply("generate", req[p].userId, req[p].groupId, "OK") EXCEPT
                    !.assignments = {AdminView(a) : a \in AssignmentsOf(req[p].groupId)}]
    /\ req' = [req EXCEPT ![p] = IdleReq]
    /\ UNCHANGED <<group, groupMembership, assignment, wishlistItem, giftClaim, calls, clock>>

\* ---- POST /api/groups/:groupId/assignments ----
\* a plain create in place of the upsert: the row of the key stays
Upsert_Insert(table, g, giverId, receiverId) ==
    table \cup {[groupId |-> g, giverId |-> giverId, receiverId |-> receiverId]}

\* prisma.assignment.upsert({ where: { groupId_giverId }, create, update })
Upsert(table, g, giverId, receiverId) ==
    {a \in table : ~(a.groupId = g /\ a.giverId = giverId)}
        \cup {[groupId |-> g, giverId |-> giverId, receiverId |-> receiverId]}

\* the handler without the giverId === receiverId test
CreateManualAs_NoSelfCheck(u, g, giverId, receiverId) ==
    /\ Accept
    /\ IF ~IsAdmin(u, g)
       THEN /\ resp' = Reply("createManual", u, g, "Forbidden")
            /\ UNCHANGED assignment
       ELSE /\ assignment' = Upsert(assignment, g, giverId, receiverId)
            /\ resp' = [Reply("createManual", u, g, "OK") EXCEPT !.assignments =
                    {AdminView([groupId |-> g, giverId |-> giverId,
                                receiverId |-> receiverId])}]
    /\ UNCHANGED <<group, groupMembership, wishlistItem, giftClaim, req, clock>>

\* the role check, the self-assignment check and the upsert
CreateManualAs(u, g, giverId, receiverId) ==
    /\ Accept
    /\ IF ~IsAdmin(u, g)
       THEN /\ resp' = Reply("createManual", u, g, "Forbidden")
            /\ UNCHANGED assignment
       ELSE IF giverId = receiverId
       THEN /\ resp' = Reply("createManual", u, g, "SelfAssignment")
            /\ UNCHANGED assignment
       ELSE /\ assignment' = Upsert(assignment, g, giverId, receiverId)
            /\ resp' = [Reply("createManual", u, g, "OK") EXCEPT !.assignments =
                    {AdminView([groupId |-> g, giverId |-> giverId,
                                receiverId |-> receiverId])}]
    /\ UNCHANGED <<group, groupMembership, wishlistItem, giftClaim, req, clock>>

CreateManual ==
    \E u \in Users, g \in Groups, giverId \in Users, receiverId \in Users :
        CreateManualAs(u, g, giverId, receiverId)

\* ---- GET /api/groups/:groupId/assignments ----
\* the fields the handler copies for a regular member
MemberView(a) == [groupId |-> a.groupId, giverId |-> a.giverId, receiverId |-> a.receiverId,
                  receiver |-> UserView(a.receiverId)]

\* the lookup without the giver in its key
AssignmentByKey_AnyGiver(g, giverId) == {a \in assignment : a.groupId = g}

\* prisma.assignment.findUnique({ where: { groupId_giverId } })
AssignmentByKey(g, giverId) == {a \in assignment : a.groupId = g /\ a.giverId = giverId}

\* the handler without the role branch: every member gets the ADMIN listing
ListResponse_NoRoleBranch(u, g) ==
    IF ~IsMember(u, g) THEN Reply("list", u, g, "Forbidden")
    ELSE [Reply("list", u, g, "OK") EXCEPT
            !.assignments = {AdminView(a) : a \in AssignmentsOf(g)}]

\* the membership check, then findMany for an ADMIN and findUnique for a MEMBER
ListResponse(u, g) ==
    IF ~IsMember(u, g) THEN Reply("list", u, g, "Forbidden")
    ELSE IF IsAdmin(u, g)
    THEN [Reply("list", u, g, "OK") EXCEPT
            !.assignments = {AdminView(a) : a \in AssignmentsOf(g)}]
    ELSE [Reply("list", u, g, "OK") EXCEPT
            !.assignments = {MemberView(a) : a \in AssignmentByKey(g, u)}]

ListAssignments ==
    /\ Accept
    /\ \E u \in Users, g \in Groups : resp' = ListResponse(u, g)
    /\ UNCHANGED <<group, groupMembership, assignment, wishlistItem, giftClaim, req, clock>>

\* ---- DELETE /api/groups/:groupId/assignments/:assignmentId ----
\* :assignmentId names one row of the table (of any group) or no row at all;
\* prisma.assignment.delete({ where: { id } }) throws when no row has the id
DeleteAssignmentAs(u, g, target) ==
    /\ Accept
    /\ IF ~IsAdmin(u, g)
       THEN /\ resp' = Reply("delete", u, g, "Forbidden")
            /\ UNCHANGED assignment
       ELSE IF target = {}
       THEN /\ resp' = Reply("delete", u, g, "Internal")
            /\ UNCHANGED assignment
       ELSE /\ assignment' = assignment \ target
            /\ resp' = Reply("delete", u, g, "OK")
    /\ UNCHANGED <<group, groupMembership, wishlistItem, giftClaim, req, clock>>

DeleteAssignment ==
    \E u \in Users, g \in Groups, target \in {{}} \cup {{a} : a \in assignment} :
        DeleteAssignmentAs(u, g, target)

\* ---- POST /api/groups/:groupId/wishlist ----
\* request bodies: a string field holds its own name and a text, so that a
\* value stored under another field is told apart
Priorities == 0..MaxPriority
Texts == 1..MaxText

Text(field, t) == [field |-> field, text |-> t]

FullBody(t, priority) ==
    [title |-> Text("title", t), url |-> Text("url", t),
     imageUrl |-> Text("imageUrl", t), notes |-> Text("notes", t),
     priority |-> priority]

Restrict(body, keys) == [k \in (DOMAIN body) \cap keys |-> body[k]]

\* the keys of createWishlistItemSchema
SchemaKeys == {"title", "url", "imageUrl", "notes", "priority"}

\* the schema without the stripping of keys it does not name
Parse_Passthrough(body) == body

\* createWishlistItemSchema.parse / .partial().parse on a valid body: z.object
\* drops the keys it does not name
Parse(body) == Restrict(body, SchemaKeys)

\* bodies of a create, every field of the schema given
CreateBodies == {FullBody(t, priority) : t \in Texts, priority \in Priorities}

\* a create that stores the notes in the url column and no notes
NewItem_NotesAsUrl(data, id, u, g, now) ==
    [k \in DOMAIN data \cup {"id", "userId", "groupId", "createdAt"} |->
        CASE k = "id" -> id
          [] k = "userId" -> u
          [] k = "groupId" -> g
          [] k = "createdAt" -> now
          [] k = "url" -> data.notes
          [] k = "notes" -> Text("notes", 0)
          [] OTHER -> data[k]]

\* the row prisma.wishlistItem.create({ data: { ...data, userId, groupId } })
\* stores, with the id and the creation time the database gives it
NewItem(data, id, u, g, now) ==
    [k \in DOMAIN data \cup {"id", "userId", "groupId", "createdAt"} |->
        CASE k = "id" -> id
          [] k = "userId" -> u
          [] k = "groupId" -> g
          [] k = "createdAt" -> now
          [] OTHER -> data[k]]

AddItemAs(u, g, body) ==
    /\ Accept
    /\ IF ~IsMember(u, g)
       THEN /\ resp' = Reply("addItem", u, g, "Forbidden")
            /\ UNCHANGED <<wishlistItem, clock>>
       ELSE /\ wishlistItem' = wishlistItem \cup
                    {NewItem(Parse(body), clock + 1, u, g, clock + 1)}
            /\ clock' = clock + 1
            /\ resp' = [Reply("addItem", u, g, "OK") EXCEPT
                    !.items = <<NewItem(Parse(body), clock + 1, u, g, clock + 1)>>]
    /\ UNCHANGED <<group, groupMembership, assignment, giftClaim, req>>

AddItem == \E u \in Users, g \in Groups, body \in CreateBodies : AddItemAs(u, g, body)

\* ---- GET /api/groups/:groupId/wishlist ----
\* the secondary key ascending: the oldest of equal priority first
Before_OldestFirst(x, y) ==
    \/ x.priority > y.priority
    \/ x.priority = y.priority /\ x.createdAt < y.createdAt

\* orderBy: [{ priority: 'desc' }, { createdAt: 'desc' }]
Before(x, y) ==
    \/ x.priority > y.priority
    \/ x.priority = y.priority /\ x.createdAt > y.createdAt

RECURSIVE OrderBy(_)
OrderBy(S) ==
    IF S = {} THEN <<>>
    ELSE LET first == CHOOSE x \in S : \A y \in S \ {x} : Before(x, y)
         IN <<first>> \o OrderBy(S \ {first})

\* include: { claim: { include: { claimedBy } } }
ClaimOf(itemId) == {c \in giftClaim : c.itemId = itemId}
FullClaim(c) == [id |-> c.id, itemId |-> c.itemId, claimedById |-> c.claimedById,
                 claimedAt |-> c.claimedAt, claimedBy |-> UserView(c.claimedById)]

\* { id, itemId, claimedAt, isClaimed: true }
HiddenClaim(c) == [id |-> c.id, itemId |-> c.itemId, claimedAt |-> c.claimedAt,
                   isClaimed |-> TRUE]

\* the map without the owner branch: every caller gets the claim as stored
FilteredItem_NoHide(item, userId) ==
    [id |-> item.id, userId |-> item.userId, groupId |-> item.groupId,
     title |-> item.title, url |-> item.url, imageUrl |-> item.imageUrl,
     notes |-> item.notes,
     priority |-> item.priority, createdAt |-> item.createdAt,
     user |-> UserView(item.userId),
     claim |-> IF ClaimOf(item.id) = {} THEN Null
               ELSE FullClaim(CHOOSE x \in ClaimOf(item.id) : TRUE)]

\* one element of filteredItems, as seen by userId
FilteredItem(item, userId) ==
    [id |-> item.id, userId |-> item.userId, groupId |-> item.groupId,
     title |-> item.title, url |-> item.url, imageUrl |-> item.imageUrl,
     notes |-> item.notes,
     priority |-> item.priority, createdAt |-> item.createdAt,
     user |-> UserView(item.userId),
     claim |-> IF ClaimOf(item.id) = {} THEN Null
               ELSE LET c == CHOOSE x \in ClaimOf(item.id) : TRUE IN
                    IF item.userId = userId THEN HiddenClaim(c) ELSE FullClaim(c)]

WishlistResponse(u, g) ==
    IF ~IsMember(u, g) THEN Reply("listWishlist", u, g, "Forbidden")
    ELSE LET items == OrderBy({i \in wishlistItem : i.groupId = g}) IN
         [Reply("listWishlist", u, g, "OK") EXCEPT
            !.items = [k \in 1..Len(items) |-> FilteredItem(items[k], u)]]

ListWishlist ==
    /\ Accept
    /\ \E u \in Users, g \in Groups : resp' = WishlistResponse(u, g)
    /\ UNCHANGED <<group, groupMembership, assignment, wishlistItem, giftClaim, req, clock>>

\* ---- PATCH /api/wishlist/:itemId ----
\* bodies of an update: every field may be absent, and a body may carry keys
\* the schema does not name; an edit writes text 0, which no create writes
PatchBodies ==
    {Restrict(FullBody(0, priority), keys) :
        priority \in Priorities, keys \in {{"title"}, {"priority"}, SchemaKeys}}
        \cup {[userId |-> u] : u \in Users}

\* prisma.wishlistItem.update({ where: { id }, data }): the columns data names
Apply(item, data) == [k \in DOMAIN item |-> IF k \in DOMAIN data THEN data[k] ELSE item[k]]

\* the handler letting an ADMIN of the item's group edit the item
UpdateItemAs_AdminMayEdit(p, u, itemId, body) ==
    /\ Accept
    /\ Free(p)
    /\ IF {i \in wishlistItem : i.id = itemId} = {}
       THEN /\ resp' = Reply("updateItem", u, 0, "NotFound")
            /\ UNCHANGED req
       ELSE LET item == CHOOSE i \in wishlistItem : i.id = itemId IN
            IF item.userId # u /\ ~IsAdmin(u, item.groupId)
            THEN /\ resp' = Reply("updateItem", u, item.groupId, "Forbidden")
                 /\ UNCHANGED req
            ELSE /\ req' = [req EXCEPT ![p] = [IdleReq EXCEPT !.op = "updateItem",
                                !.pc = "update", !.userId = u, !.groupId = item.groupId,
                                !.itemId = itemId, !.data = Parse(body)]]
                 /\ UNCHANGED resp
    /\ UNCHANGED <<group, groupMembership, assignment, wishlistItem, giftClaim, clock>>

\* the parse, prisma.wishlistItem.findUnique({ where: { id } }) and the two checks
UpdateItemAs(p, u, itemId, body) ==
    /\ Accept
    /\ Free(p)
    /\ IF {i \in wishlistItem : i.id = itemId} = {}
       THEN /\ resp' = Reply("updateItem", u, 0, "NotFound")
            /\ UNCHANGED req
       ELSE LET item == CHOOSE i \in wishlistItem : i.id = itemId IN
            IF item.userId # u
            THEN /\ resp' = Reply("updateItem", u, item.groupId, "Forbidden")
                 /\ UNCHANGED req
            ELSE /\ req' = [req EXCEPT ![p] = [IdleReq EXCEPT !.op = "updateItem",
                                !.pc = "update", !.userId = u, !.groupId = item.groupId,
                                !.itemId = itemId, !.data = Parse(body)]]
                 /\ UNCHANGED resp
    /\ UNCHANGED <<group, groupMembership, assignment, wishlistItem, giftClaim, clock>>

UpdateItem(p) ==
    \E u \in Users, itemId \in {NoItem} \cup {i.id : i \in wishlistItem}, body \in PatchBodies :
        UpdateItemAs(p, u, itemId, body)

\* prisma.wishlistItem.update throws when the row is gone
UpdateItemUpdate(p) ==
    /\ Quiet
    /\ req[p].op = "updateItem" /\ req[p].pc = "update"
    /\ IF {i \in wishlistItem : i.id = req[p].itemId} = {}
       THEN /\ resp' = Reply("updateItem", req[p].userId, req[p].groupId, "Internal")
            /\ UNCHANGED wishlistItem
       ELSE LET item == CHOOSE i \in wishlistItem : i.id = req[p].itemId IN
            /\ wishlistItem' = (wishlistItem \ {item}) \cup {Apply(item, req[p].data)}
            /\ resp' = [Reply("updateItem", req[p].userId, req[p].groupId, "OK") EXCEPT
                    !.items = <<Apply(item, req[p].data)>>]
    /\ req' = [req EXCEPT ![p] = IdleReq]
    /\ UNCHANGED <<group, groupMembership, assignment, giftClaim, calls, clock>>

\* ---- DELETE /api/wishlist/:itemId ----
\* prisma.wishlistItem.findUnique({ where: { id } }) and the two checks
DeleteItemAs(p, u, itemId) ==
    /\ Accept
    /\ Free(p)
    /\ IF {i \in wishlistItem : i.id = itemId} = {}
       THEN /\ resp' = Reply("deleteItem", u, 0, "NotFound")
            /\ UNCHANGED req
       ELSE LET item == CHOOSE i \in wishlistItem : i.id = itemId IN
            IF item.userId # u
            THEN /\ resp' = Reply("deleteItem", u, item.groupId, "Forbidden")
                 /\ UNCHANGED req
            ELSE /\ req' = [req EXCEPT ![p] = [IdleReq EXCEPT !.op = "deleteItem",
                                !.pc = "delete", !.userId = u, !.groupId = item.groupId,
                                !.itemId = itemId]]
                 /\ UNCHANGED resp
    /\ UNCHANGED <<group, groupMembership, assignment, wishlistItem, giftClaim, clock>>

DeleteItem(p) ==
    \E u \in Users, itemId \in {NoItem} \cup {i.id : i \in wishlistItem} :
        DeleteItemAs(p, u, itemId)

\* the claims that leave the table with their item: "Deleting an item
\* implicitly removes any associated claim"
CascadeClaim(itemId) == {c \in giftClaim : c.itemId = itemId}

\* a delete statement that removes no item row
DeleteItemDelete_KeepItem(p) ==
    /\ Quiet
    /\ req[p].op = "deleteItem" /\ req[p].pc = "delete"
    /\ IF {i \in wishlistItem : i.id = req[p].itemId} = {}
       THEN /\ resp' = Reply("deleteItem", req[p].userId, req[p].groupId, "Internal")
            /\ UNCHANGED <<wishlistItem, giftClaim>>
       ELSE /\ giftClaim' = giftClaim \ CascadeClaim(req[p].itemId)
            /\ resp' = Reply("deleteItem", req[p].userId, req[p].groupId, "OK")
            /\ UNCHANGED wishlistItem
    /\ req' = [req EXCEPT ![p] = IdleReq]
    /\ UNCHANGED <<group, groupMembership, assignment, calls, clock>>

\* prisma.wishlistItem.delete({ where: { id } }) throws when the row is gone
DeleteItemDelete(p) ==
    /\ Quiet
    /\ req[p].op = "deleteItem" /\ req[p].pc = "delete"
    /\ IF {i \in wishlistItem : i.id = req[p].itemId} = {}
       THEN /\ resp' = Reply("deleteItem", req[p].userId, req[p].groupId, "Internal")
            /\ UNCHANGED <<wishlistItem, giftClaim>>
       ELSE /\ wishlistItem' = {i \in wishlistItem : i.id # req[p].itemId}
            /\ giftClaim' = giftClaim \ CascadeClaim(req[p].itemId)
            /\ resp' = Reply("deleteItem", req[p].userId, req[p].groupId, "OK")
    /\ req' = [req EXCEPT ![p] = IdleReq]
    /\ UNCHANGED <<group, groupMembership, assignment, calls, clock>>

\* ---- POST /api/wishlist/:itemId/claim ----
\* prisma.wishlistItem.findUnique({ where: { id }, include: { claim } })
ItemById(itemId) == {i \in wishlistItem : i.id = itemId}

\* the handler testing for an existing claim before it tests for the owner
ClaimAs_ClaimedFirst(p, u, itemId) ==
    /\ Accept
    /\ Free(p)
    /\ IF ItemById(itemId) = {}
       THEN /\ resp' = Reply("claim", u, 0, "NotFound")
            /\ UNCHANGED req
       ELSE LET item == CHOOSE i \in ItemById(itemId) : TRUE IN
            IF ClaimOf(itemId) # {}
            THEN /\ resp' = Reply("claim", u, item.groupId, "AlreadyClaimed")
                 /\ UNCHANGED req
            ELSE IF item.userId = u
            THEN /\ resp' = Reply("claim", u, item.groupId, "SelfClaim")
                 /\ UNCHANGED req
            ELSE /\ req' = [req EXCEPT ![p] = [IdleReq EXCEPT !.op = "claim",
                                !.pc = "create", !.userId = u,
                                !.groupId = item.groupId, !.itemId = itemId]]
                 /\ UNCHANGED resp
    /\ UNCHANGED <<group, groupMembership, assignment, wishlistItem, giftClaim, clock>>

\* the lookup and the three checks
ClaimAs(p, u, itemId) ==
    /\ Accept
    /\ Free(p)
    /\ IF ItemById(itemId) = {}
       THEN /\ resp' = Reply("claim", u, 0, "NotFound")
            /\ UNCHANGED req
       ELSE LET item == CHOOSE i \in ItemById(itemId) : TRUE IN
            IF item.userId = u
            THEN /\ resp' = Reply("claim", u, item.groupId, "SelfClaim")
                 /\ UNCHANGED req
            ELSE IF ClaimOf(itemId) # {}
            THEN /\ resp' = Reply("claim", u, item.groupId, "AlreadyClaimed")
                 /\ UNCHANGED req
            ELSE /\ req' = [req EXCEPT ![p] = [IdleReq EXCEPT !.op = "claim",
                                !.pc = "create", !.userId = u,
                                !.groupId = item.groupId, !.itemId = itemId]]
                 /\ UNCHANGED resp
    /\ UNCHANGED <<group, groupMembership, assignment, wishlistItem, giftClaim, clock>>

Claim(p) == \E u \in Users, itemId \in {NoItem} \cup {i.id : i \in wishlistItem} :
                ClaimAs(p, u, itemId)

\* prisma.giftClaim.create: the itemId unique index rejects a second claim of
\* the item; the throw lands in the catch block, which answers 500.
\* ClaimCreate_NoIndex is the create on a table without the index.
ClaimCreate_NoIndex(p) ==
    /\ Quiet
    /\ req[p].op = "claim" /\ req[p].pc = "create"
    /\ IF ItemById(req[p].itemId) = {}
       THEN /\ resp' = Reply("claim", req[p].userId, req[p].groupId, "Internal")
            /\ UNCHANGED <<giftClaim, clock>>
       ELSE /\ giftClaim' = giftClaim \cup
                    {[id |-> clock + 1, itemId |-> req[p].itemId,
                      claimedById |-> req[p].userId, claimedAt |-> clock + 1]}
            /\ clock' = clock + 1
            /\ resp' = [Reply("claim", req[p].userId, req[p].groupId, "OK") EXCEPT
                    !.items = <<FullClaim([id |-> clock + 1, itemId |-> req[p].itemId,
                        claimedById |-> req[p].userId, claimedAt |-> clock + 1])>>]
    /\ req' = [req EXCEPT ![p] = IdleReq]
    /\ UNCHANGED <<group, groupMembership, assignment, wishlistItem, calls>>

ClaimCreate(p) ==
    /\ Quiet
    /\ req[p].op = "claim" /\ req[p].pc = "create"
    /\ IF ClaimOf(req[p].itemId) # {} \/ ItemById(req[p].itemId) = {}
       THEN /\ resp' = Reply("claim", req[p].userId, req[p].groupId, "Internal")
            /\ UNCHANGED <<giftClaim, clock>>
       ELSE /\ giftClaim' = giftClaim \cup
                    {[id |-> clock + 1, itemId |-> req[p].itemId,
                      claimedById |-> req[p].userId, claimedAt |-> clock + 1]}
            /\ clock' = clock + 1
            /\ resp' = [Reply("claim", req[p].userId, req[p].groupId, "OK") EXCEPT
                    !.items = <<FullClaim([id |-> clock + 1, itemId |-> req[p].itemId,
                        claimedById |-> req[p].userId, claimedAt |-> clock + 1])>>]
    /\ req' = [req EXCEPT ![p] = IdleReq]
    /\ UNCHANGED <<group, groupMembership, assignment, wishlistItem, calls>>

\* ---- DELETE /api/wishlist/:itemId/claim ----
\* prisma.giftClaim.findUnique({ where: { itemId } }) and the two checks;
\* UnclaimAs_NoClaimerCheck is the handler without the claimedById test
UnclaimAs_NoClaimerCheck(p, u, itemId) ==
    /\ Accept
    /\ Free(p)
    /\ IF ClaimOf(itemId) = {}
       THEN /\ resp' = Reply("unclaim", u, 0, "NotFound")
            /\ UNCHANGED req
       ELSE /\ req' = [req EXCEPT ![p] = [IdleReq EXCEPT !.op = "unclaim",
                           !.pc = "delete", !.userId = u, !.itemId = itemId]]
            /\ UNCHANGED resp
    /\ UNCHANGED <<group, groupMembership, assignment, wishlistItem, giftClaim, clock>>

UnclaimAs(p, u, itemId) ==
    /\ Accept
    /\ Free(p)
    /\ IF ClaimOf(itemId) = {}
       THEN /\ resp' = Reply("unclaim", u, 0, "NotFound")
            /\ UNCHANGED req
       ELSE IF (CHOOSE c \in ClaimOf(itemId) : TRUE).claimedById # u
       THEN /\ resp' = Reply("unclaim", u, 0, "Forbidden")
            /\ UNCHANGED req
       ELSE /\ req' = [req EXCEPT ![p] = [IdleReq EXCEPT !.op = "unclaim",
                           !.pc = "delete", !.userId = u, !.itemId = itemId]]
            /\ UNCHANGED resp
    /\ UNCHANGED <<group, groupMembership, assignment, wishlistItem, giftClaim, clock>>

Unclaim(p) == \E u \in Users, itemId \in {NoItem} \cup {i.id : i \in wishlistItem} :
                  UnclaimAs(p, u, itemId)

\* prisma.giftClaim.delete({ where: { itemId } }): removes the claim the item
\* has now, and throws when it has none
UnclaimDelete(p) ==
    /\ Quiet
    /\ req[p].op = "unclaim" /\ req[p].pc = "delete"
    /\ IF ClaimOf(req[p].itemId) = {}
       THEN /\ resp' = Reply("unclaim", req[p].userId, 0, "Internal")
            /\ UNCHANGED giftClaim
       ELSE /\ giftClaim' = giftClaim \ ClaimOf(req[p].itemId)
            /\ resp' = Reply("unclaim", req[p].userId, 0, "OK")
    /\ req' = [req EXCEPT ![p] = IdleReq]
    /\ UNCHANGED <<group, groupMembership, assignment, wishlistItem, calls, clock>>

\* ---- res.json(...) / res.status(...).json(...) ----
\* the response leaves the server
Respond ==
    /\ ~Quiet
    /\ resp' = NoResp
    /\ UNCHANGED <<group, groupMembership, assignment, wishlistItem, giftClaim, req, calls, clock>>

Init ==
    /\ group = <<>>
    /\ groupMembership = <<>>
    /\ assignment = {}
    /\ wishlistItem = {}
    /\ giftClaim = {}
    /\ req = [p \in Procs |-> IdleReq]
    /\ resp = NoResp
    /\ calls = 0
    /\ clock = 0

\* ---- the group and assignment routes, requests interleaving ----
Next ==
    \/ CreateGroup
    \/ UpdateAssignmentMode
    \/ CreateManual
    \/ ListAssignments
    \/ DeleteAssignment
    \/ Respond
    \/ \E p \in Procs :
        \/ JoinGroup(p)
        \/ JoinCreate(p)
        \/ Generate(p)
        \/ GenerateDeleteMany(p)
        \/ GenerateCreateMany(p)
        \/ GenerateFindMany(p)

Spec == Init /\ [][Next]_vars

\* ---- the group and wishlist routes, requests interleaving ----
NextWish ==
    \/ CreateGroup
    \/ AddItem
    \/ ListWishlist
    \/ Respond
    \/ \E p \in Procs :
        \/ JoinGroup(p)
        \/ JoinCreate(p)
        \/ Claim(p)
        \/ ClaimCreate(p)
        \/ Unclaim(p)
        \/ UnclaimDelete(p)
        \/ UpdateItem(p)
        \/ UpdateItemUpdate(p)
        \/ DeleteItem(p)
        \/ DeleteItemDelete(p)

SpecWish == Init /\ [][NextWish]_vars

\* ---- the group and assignment routes, one request at a time ----
NoneInFlight == \A q \in Procs : req[q].pc = "idle"

NextSeq ==
    \/ NoneInFlight /\ CreateGroup
    \/ NoneInFlight /\ UpdateAssignmentMode
    \/ NoneInFlight /\ CreateManual
    \/ NoneInFlight /\ ListAssignments
    \/ NoneInFlight /\ DeleteAssignment
    \/ Respond
    \/ \E p \in Procs :
        \/ NoneInFlight /\ JoinGroup(p)
        \/ JoinCreate(p)
        \/ NoneInFlight /\ Generate(p)
        \/ GenerateDeleteMany(p)
        \/ GenerateCreateMany(p)
        \/ GenerateFindMany(p)

SpecSeq == Init /\ [][NextSeq]_vars

\* ---- the group and wishlist routes, one request at a time ----
NextWishSeq ==
    \/ NoneInFlight /\ CreateGroup
    \/ NoneInFlight /\ AddItem
    \/ NoneInFlight /\ ListWishlist
    \/ Respond
    \/ \E p \in Procs :
        \/ NoneInFlight /\ JoinGroup(p)
        \/ JoinCreate(p)
        \/ NoneInFlight /\ Claim(p)
        \/ ClaimCreate(p)
        \/ NoneInFlight /\ Unclaim(p)
        \/ UnclaimDelete(p)
        \/ NoneInFlight /\ UpdateItem(p)
        \/ UpdateItemUpdate(p)
        \/ NoneInFlight /\ DeleteItem(p)
        \/ DeleteItemDelete(p)

SpecWishSeq == Init /\ [][NextWishSeq]_vars

\* ---- the routes that read a group, and the routes that fill it ----
NextRead ==
    \/ CreateGroup
    \/ CreateManual
    \/ AddItem
    \/ GetGroup
    \/ ListAssignments
    \/ ListWishlist
    \/ Respond
    \/ \E p \in Procs :
        \/ JoinGroup(p)
        \/ JoinCreate(p)

SpecRead == Init /\ [][NextRead]_vars

\* ---- group creation, joins and generate calls, requests interleaving ----
NextGen ==
    \/ CreateGroup
    \/ Respond
    \/ \E p \in Procs :
        \/ JoinGroup(p)
        \/ JoinCreate(p)
        \/ Generate(p)
        \/ GenerateDeleteMany(p)
        \/ GenerateCreateMany(p)
        \/ GenerateFindMany(p)

SpecGen == Init /\ [][NextGen]_vars

\* ======================= properties =======================

\* the rows with a given giver / receiver
GivenBy(rows, m) == {r \in rows : r.giverId = m}
ReceivedBy(rows, m) == {r \in rows : r.receiverId = m}

\* the members reached from m by following giver -> receiver k times
RECURSIVE Orbit(_, _, _)
Orbit(rows, m, k) ==
    IF k = 0 THEN {m}
    ELSE {m} \cup Orbit(rows, (CHOOSE r \in rows : r.giverId = m).receiverId, k - 1)

\* rows is one permutation cycle over the set S
SingleCycle(rows, S) ==
    /\ Cardinality(rows) = Cardinality(S)
    /\ \A r \in rows : r.giverId \in S /\ r.receiverId \in S /\ r.giverId # r.receiverId
    /\ \A m \in S : Cardinality(GivenBy(rows, m)) = 1 /\ Cardinality(ReceivedBy(rows, m)) = 1
    /\ \A m \in S : Orbit(rows, m, Cardinality(S) - 1) = S

\* C1: with requests served one at a time, a successful generate on a group of
\* n >= 2 members returns exactly n assignments forming one cycle over the
\* members: each member is giver once and receiver once, nobody gives to
\* themselves, whatever indices the shuffle draws.
C1_GenerateSingleCycle ==
    (resp.op = "generate" /\ resp.error = "OK") =>
        /\ Cardinality(MemberSet(resp.groupId)) >= 2
        /\ \A r \in resp.assignments : r.groupId = resp.groupId
        /\ SingleCycle(resp.assignments, MemberSet(resp.groupId))

C1_Witness ==
    /\ resp.op = "generate" /\ resp.error = "OK"
    /\ Cardinality(MemberSet(resp.groupId)) = 3
    /\ Cardinality(resp.assignments) = 3

\* C3: a list answered to a caller who is not ADMIN of the group holds at most
\* one assignment; that assignment has the caller as giver and belongs to the
\* requested group; the list is empty when the caller gives to nobody there.
C3_MemberSeesOwnOnly ==
    (resp.op = "list" /\ resp.error = "OK" /\ ~IsAdmin(resp.userId, resp.groupId)) =>
        /\ Cardinality(resp.assignments) <= 1
        /\ \A a \in resp.assignments :
              a.giverId = resp.userId /\ a.groupId = resp.groupId
        /\ (~\E a \in assignment : a.groupId = resp.groupId /\ a.giverId = resp.userId)
              => resp.assignments = {}

C3_Witness ==
    /\ resp.op = "list" /\ resp.error = "OK"
    /\ ~IsAdmin(resp.userId, resp.groupId)
    /\ Cardinality(resp.assignments) = 1
    /\ Cardinality(AssignmentsOf(resp.groupId)) >= 2

\* C5: a list answered while a generate on the same group is between its
\* deleteMany and its createMany shows every assignment the group had before
\* the generate, or every assignment of a new circle.
C5_ListSeesOldOrNew ==
    \A p \in Procs :
        (/\ resp.op = "list" /\ resp.error = "OK"
         /\ IsAdmin(resp.userId, resp.groupId)
         /\ req[p].op = "generate" /\ req[p].pc = "createMany"
         /\ req[p].groupId = resp.groupId) =>
            \/ {AdminView(a) : a \in req[p].before} \subseteq resp.assignments
            \/ \E data \in Circles(req[p].groupId, req[p].memberIds) :
                  {AdminView(a) : a \in data} \subseteq resp.assignments

\* C6: when generate's createMany is rejected, the group still holds every
\* assignment it had before the generate, or holds every assignment of the new
\* circle.
C6_FailedWriteKeepsOldOrNew ==
    [][\A p \in Procs : \A data \in Circles(req[p].groupId, req[p].memberIds) :
        (GenerateCreateManyWith(p, data) /\ UniqueViolation(data, assignment)) =>
            (req[p].before \subseteq assignment' \/ data \subseteq assignment')]_vars

\* C7: generate called by the ADMIN of a group with fewer than 2 members is
\* answered InsufficientMembers, starts no deleteMany and leaves the
\* assignment table as it was.
C7_InsufficientMembers ==
    [][\A p \in Procs, u \in Users, g \in Groups :
        (GenerateAs(p, u, g) /\ IsAdmin(u, g) /\ Len(MemberIds(g)) < 2) =>
            /\ resp'.error = "InsufficientMembers"
            /\ req' = req
            /\ assignment' = assignment]_vars

C7_Witness ==
    /\ resp.op = "generate" /\ resp.error = "InsufficientMembers"
    /\ Len(MemberIds(resp.groupId)) = 1
    /\ AssignmentsOf(resp.groupId) # {}

\* C8: createManual called by an ADMIN with a giver or a receiver that is not
\* a member of the group is answered NotAMember and changes no assignment.
C8_NotAMember ==
    [][\A u \in Users, g \in Groups, giverId \in Users, receiverId \in Users :
        (/\ CreateManualAs(u, g, giverId, receiverId)
         /\ IsAdmin(u, g)
         /\ giverId # receiverId
         /\ (giverId \notin MemberSet(g) \/ receiverId \notin MemberSet(g))) =>
            (resp'.error = "NotAMember" /\ assignment' = assignment)]_vars

\* C9: the giver and the receiver of every stored assignment are members of
\* the assignment's group.
C9_AssignedAreMembers ==
    \A a \in assignment :
        a.giverId \in MemberSet(a.groupId) /\ a.receiverId \in MemberSet(a.groupId)

\* C10: no stored assignment has its giver as receiver, and no two stored
\* assignments share a (group, giver) pair.
C10_NoSelfAndUniqueGiver ==
    /\ \A a \in assignment : a.giverId # a.receiverId
    /\ \A a, b \in assignment : SameKey(a, b) => a = b

\* the unique index has rejected the write of a generate that a createManual
\* on the same group overtook
C10_Witness ==
    /\ resp.op = "generate" /\ resp.error = "Internal"
    /\ AssignmentsOf(resp.groupId) # {}

\* C2 (as stated): a wishlist listing shows the caller no claimer identity
\* for an own item; for a claimed own item it shows a claimed flag and the
\* claim timestamp and nothing else.
C2_OwnClaimOnlyFlagAndTime ==
    (resp.op = "listWishlist" /\ resp.error = "OK") =>
        \A k \in DOMAIN resp.items :
            LET item == resp.items[k] IN
            item.userId = resp.userId =>
                /\ "claimedById" \notin DOMAIN item.claim
                /\ "claimedBy" \notin DOMAIN item.claim
                /\ (ClaimOf(item.id) # {}) =>
                      DOMAIN item.claim = {"isClaimed", "claimedAt"}

\* C2 (amended): a wishlist listing never shows the caller who claimed an item
\* the caller owns, whatever the caller's role; for a claimed own item it
\* shows the claim's id, the item's id, a claimed flag and the claim timestamp.
C2_OwnerNeverSeesClaimer ==
    (resp.op = "listWishlist" /\ resp.error = "OK") =>
        \A k \in DOMAIN resp.items :
            LET item == resp.items[k] IN
            item.userId = resp.userId =>
                /\ "claimedById" \notin DOMAIN item.claim
                /\ "claimedBy" \notin DOMAIN item.claim
                /\ (ClaimOf(item.id) # {}) =>
                      /\ DOMAIN item.claim = {"id", "itemId", "claimedAt", "isClaimed"}
                      /\ item.claim.isClaimed
                      /\ \E c \in ClaimOf(item.id) : item.claim.claimedAt = c.claimedAt

\* an ADMIN lists a wishlist holding an own item that somebody claimed
C2_Witness ==
    /\ resp.op = "listWishlist" /\ resp.error = "OK"
    /\ IsAdmin(resp.userId, resp.groupId)
    /\ \E k \in DOMAIN resp.items :
          resp.items[k].userId = resp.userId /\ ClaimOf(resp.items[k].id) # {}

\* C4: a claim whose create finds the item claimed by a concurrent request is
\* answered AlreadyClaimed.
C4_LoserGetsAlreadyClaimed ==
    [][\A p \in Procs :
        (ClaimCreate(p) /\ ClaimOf(req[p].itemId) # {}) =>
            resp'.error = "AlreadyClaimed"]_vars

\* C11: delete called by an ADMIN of groupId with an assignment id that names no
\* assignment of groupId (a row of another group, or no row) is answered
\* NotFound and removes no assignment of any group.
C11_DeleteOutsideGroupNotFound ==
    [][\A u \in Users, g \in Groups, target \in {{}} \cup {{a} : a \in assignment} :
        (/\ DeleteAssignmentAs(u, g, target)
         /\ IsAdmin(u, g)
         /\ \A a \in target : a.groupId # g) =>
            (resp'.error = "NotFound" /\ assignment' = assignment)]_vars

\* the stored membership of u in g has role ADMIN
HoldsAdminRole(u, g) ==
    \E i \in DOMAIN groupMembership :
        /\ groupMembership[i].userId = u
        /\ groupMembership[i].groupId = g
        /\ groupMembership[i].role = "ADMIN"

\* the assignments, the group rows and the running requests stay as they are
C12_NothingChanges == assignment' = assignment /\ group' = group /\ req' = req

\* C12: a generate, createManual, delete-assignment or update-assignment-mode
\* request of a user without an ADMIN membership in the target group (a
\* non-member or a MEMBER) is answered Forbidden and leaves the assignments
\* and the group's mode unchanged; a generate runs its statements only for a
\* caller who is ADMIN of the group.
C12_AdminOnlyMutations ==
    [][/\ (/\ resp' # resp
           /\ resp'.op \in {"generate", "createManual", "delete", "updateMode"}
           /\ ~HoldsAdminRole(resp'.userId, resp'.groupId)) =>
                (resp'.error = "Forbidden" /\ C12_NothingChanges)
       /\ \A p \in Procs :
            req'[p].op = "generate" => HoldsAdminRole(req'[p].userId, req'[p].groupId)
       /\ (assignment' # assignment \/ group' # group) =>
            \/ \E p \in Procs : req[p].op = "generate"
            \/ resp'.op = "createGroup"
            \/ HoldsAdminRole(resp'.userId, resp'.groupId)]_vars

\* a MEMBER of a group whose ADMIN has already changed the mode is refused
C12_Witness ==
    /\ resp.op = "updateMode" /\ resp.error = "Forbidden"
    /\ IsMember(resp.userId, resp.groupId)
    /\ group[resp.groupId].assignmentMode # "RANDOM"

\* C13: a claim by the owner of the item is answered SelfClaim and creates no
\* claim and starts no create, whether or not the item is already claimed; no
\* stored claim has the owner of its item as claimer.
C13_SelfClaimRejected ==
    [][/\ \A p \in Procs, i \in wishlistItem :
            ClaimAs(p, i.userId, i.id) =>
                (resp'.error = "SelfClaim" /\ giftClaim' = giftClaim /\ req' = req)
       /\ \A c \in giftClaim', i \in wishlistItem' :
            i.id = c.itemId => c.claimedById # i.userId]_vars

\* the owner tries to claim the only item, which somebody has claimed already
C13_Witness ==
    /\ resp.op = "claim" /\ resp.error = "SelfClaim"
    /\ Cardinality(wishlistItem) = 1
    /\ \A i \in wishlistItem : i.userId = resp.userId /\ ClaimOf(i.id) # {}

\* C14: createManual called by an ADMIN with giverId equal to receiverId is
\* answered SelfAssignment and leaves every assignment, the giver's existing
\* one included, as it was.
C14_SelfAssignmentRejected ==
    [][\A u \in Users, g \in Groups, giverId \in Users :
        (HoldsAdminRole(u, g) /\ CreateManualAs(u, g, giverId, giverId)) =>
            (resp'.error = "SelfAssignment" /\ assignment' = assignment)]_vars

\* every user already gives to somebody in the group when the request arrives
C14_Witness ==
    /\ resp.op = "createManual" /\ resp.error = "SelfAssignment"
    /\ \A x \in Users : GivenBy(AssignmentsOf(resp.groupId), x) # {}

\* C15: every wishlist item has zero or one claim; a claim by a non-owner that
\* finds the item claimed is answered AlreadyClaimed and leaves the stored
\* claim, its claimer included, as it was; the claimer of every stored claim
\* differs from the owner of the claimed item.
C15_AtMostOneClaim ==
    [][/\ \A i \in wishlistItem' :
            Cardinality({c \in giftClaim' : c.itemId = i.id}) <= 1
       /\ \A c \in giftClaim', i \in wishlistItem' :
            i.id = c.itemId => c.claimedById # i.userId
       /\ \A p \in Procs, u \in Users, i \in wishlistItem :
            (u # i.userId /\ ClaimOf(i.id) # {} /\ ClaimAs(p, u, i.id)) =>
                (resp'.error = "AlreadyClaimed" /\ giftClaim' = giftClaim /\ req' = req)]_vars

\* a user other than the claimer and the owner is refused the only item
C15_Witness ==
    /\ resp.op = "claim" /\ resp.error = "AlreadyClaimed"
    /\ Cardinality(wishlistItem) = 1 /\ Cardinality(giftClaim) = 1
    /\ \A c \in giftClaim : c.claimedById # resp.userId

\* C16: with requests served one at a time, a join with a code that matches
\* no group is answered InvalidInviteCode and creates no membership; a join
\* by a user who already holds a membership in the group of the code is
\* answered AlreadyMember and leaves the memberships, the user's role
\* included, as they were; a join is answered in no other way than OK,
\* InvalidInviteCode or AlreadyMember.
C16_JoinErrors ==
    [][/\ \A p \in Procs, u \in Users, code \in {NoCode} \cup Groups :
            (/\ code \notin {group[g].inviteCode : g \in DOMAIN group}
             /\ JoinGroupAs(p, u, code)) =>
                /\ resp'.error = "InvalidInviteCode"
                /\ groupMembership' = groupMembership /\ req' = req
       /\ \A p \in Procs, u \in Users, g \in DOMAIN group :
            (/\ \E i \in DOMAIN groupMembership :
                    groupMembership[i].userId = u /\ groupMembership[i].groupId = g
             /\ JoinGroupAs(p, u, group[g].inviteCode)) =>
                /\ resp'.error = "AlreadyMember"
                /\ groupMembership' = groupMembership /\ req' = req
       /\ (resp' # resp /\ resp'.op = "join") =>
            resp'.error \in {"OK", "InvalidInviteCode", "AlreadyMember"}]_vars

\* a user who joined as MEMBER joins the same group again
C16_Witness ==
    /\ resp.op = "join" /\ resp.error = "AlreadyMember"
    /\ \E i \in DOMAIN groupMembership :
          /\ groupMembership[i].userId = resp.userId
          /\ groupMembership[i].groupId = resp.groupId
          /\ groupMembership[i].role = "MEMBER"

\* C17: in every reachable state, also after two join requests of one user
\* for one group have interleaved, no two memberships share a (user, group)
\* pair, and the creator of every group holds a membership of that group
\* with role ADMIN.
C17_OneMembershipPerPair ==
    /\ \A i, j \in DOMAIN groupMembership :
          (/\ groupMembership[i].userId = groupMembership[j].userId
           /\ groupMembership[i].groupId = groupMembership[j].groupId) => i = j
    /\ \A g \in DOMAIN group :
          \E i \in DOMAIN groupMembership :
              /\ groupMembership[i].userId = group[g].createdById
              /\ groupMembership[i].groupId = g
              /\ groupMembership[i].role = "ADMIN"

\* two joins of one user passed the membership test together and the second
\* create was rejected
C17_Witness ==
    /\ resp.op = "join" /\ resp.error = "Internal"
    /\ \E i \in DOMAIN groupMembership :
          /\ groupMembership[i].userId = resp.userId
          /\ groupMembership[i].groupId = resp.groupId
          /\ groupMembership[i].role = "MEMBER"

\* the stored assignment of group g whose giver is u
OwnRow(u, g) == {a \in assignment : a.groupId = g /\ a.giverId = u}

\* C18: for a member u of g who is not ADMIN, any step that keeps the
\* assignment of g whose giver is u keeps the answer list-assignments gives
\* to u, whatever happens to the other assignments of g; the answer actually
\* sent is that one, and every assignment in it has u as giver, so it never
\* names the member whose receiver is u.
C18_ListDependsOnOwnRowOnly ==
    [][/\ \A u \in Users, g \in DOMAIN group :
            (/\ IsMember(u, g) /\ ~HoldsAdminRole(u, g)
             /\ OwnRow(u, g)' = OwnRow(u, g)) =>
                ListResponse(u, g)' = ListResponse(u, g)
       /\ (/\ resp' # resp /\ resp'.op = "list" /\ resp'.error = "OK"
           /\ ~HoldsAdminRole(resp'.userId, resp'.groupId)) =>
                /\ resp' = ListResponse(resp'.userId, resp'.groupId)
                /\ \A a \in resp'.assignments :
                      a.giverId = resp'.userId /\ "giver" \notin DOMAIN a]_vars

\* a MEMBER who gives to somebody, and to whom somebody else gives, lists
C18_Witness ==
    /\ resp.op = "list" /\ resp.error = "OK"
    /\ IsMember(resp.userId, resp.groupId) /\ ~HoldsAdminRole(resp.userId, resp.groupId)
    /\ Cardinality(resp.assignments) = 1
    /\ \E a \in assignment : a.groupId = resp.groupId /\ a.receiverId = resp.userId

\* u has a stored membership in g, whatever its role
HoldsMembership(u, g) ==
    \E i \in DOMAIN groupMembership :
        groupMembership[i].userId = u /\ groupMembership[i].groupId = g

\* the response carries no group, no assignment and no wishlist item
C19_NoData == resp.group = <<>> /\ resp.assignments = {} /\ resp.items = <<>>

\* C19: get-group, list-assignments and list-wishlist on an existing group
\* answer a caller without a membership in it with Forbidden and no data, and
\* answer every member, ADMIN or MEMBER, with OK and data of that group only;
\* a group id that names no group yields no data either.
C19_ReadsNeedMembership ==
    resp.op \in {"getGroup", "list", "listWishlist"} =>
        IF resp.groupId \notin DOMAIN group
        THEN resp.error # "OK" /\ C19_NoData
        ELSE IF ~HoldsMembership(resp.userId, resp.groupId)
        THEN resp.error = "Forbidden" /\ C19_NoData
        ELSE /\ resp.error = "OK"
             /\ \A k \in DOMAIN resp.group : resp.group[k].id = resp.groupId
             /\ \A a \in resp.assignments : a.groupId = resp.groupId
             /\ \A k \in DOMAIN resp.items : resp.items[k].groupId = resp.groupId
             /\ resp.op = "getGroup" => Len(resp.group) = 1

\* a user without a membership asks for the wishlist of a group that has items
C19_Witness ==
    /\ resp.op = "listWishlist" /\ resp.error = "Forbidden"
    /\ resp.groupId \in DOMAIN group
    /\ \E i \in wishlistItem : i.groupId = resp.groupId

\* the claimer of the claim stored for itemId, if any
ClaimersOf(itemId) == {c.claimedById : c \in {x \in giftClaim : x.itemId = itemId}}

\* C20: with requests served one at a time, an unclaim of an item without a
\* claim is answered NotFound, an unclaim by a user other than the claimer is
\* answered Forbidden, and both leave the claims as they were; an unclaim by
\* the claimer removes the claim; a claim leaves the table only through an
\* unclaim of its own claimer, or together with its item when the item's
\* owner deletes the item.
C20_UnclaimByClaimerOnly ==
    [][/\ \A p \in Procs, u \in Users, itemId \in {NoItem} \cup {i.id : i \in wishlistItem} :
            UnclaimAs(p, u, itemId) =>
                IF ClaimersOf(itemId) = {}
                THEN resp'.error = "NotFound" /\ giftClaim' = giftClaim /\ req' = req
                ELSE IF u \notin ClaimersOf(itemId)
                THEN resp'.error = "Forbidden" /\ giftClaim' = giftClaim /\ req' = req
                ELSE req'[p].op = "unclaim" /\ req'[p].userId = u /\ req'[p].itemId = itemId
       /\ \A p \in Procs :
            UnclaimDelete(p) =>
                /\ resp'.error = "OK"
                /\ ClaimersOf(req[p].itemId) = {req[p].userId}
                /\ giftClaim' = {c \in giftClaim : c.itemId # req[p].itemId}
       /\ \A c \in giftClaim \ giftClaim' :
            \E p \in Procs :
                \/ /\ UnclaimDelete(p)
                   /\ req[p].userId = c.claimedById /\ req[p].itemId = c.itemId
                \/ /\ DeleteItemDelete(p)
                   /\ req[p].itemId = c.itemId]_vars

\* the claimer has removed the claim of the only item
C20_Witness ==
    /\ resp.op = "unclaim" /\ resp.error = "OK"
    /\ Cardinality(wishlistItem) = 1 /\ giftClaim = {}

\* the stored rows and the running requests stay as they are
C21_NothingChanges ==
    wishlistItem' = wishlistItem /\ giftClaim' = giftClaim /\ req' = req

\* a step that takes in an updateItem or a deleteItem request: it answers at
\* once or starts the request in a free slot
C21_ItemCall ==
    /\ calls' = calls + 1
    /\ \/ resp'.op \in {"updateItem", "deleteItem"}
       \/ \E p \in Procs : req[p].pc = "idle" /\ req'[p].op \in {"updateItem", "deleteItem"}

\* C21: updateItem and deleteItem called by a user who does not own the item,
\* an ADMIN of the item's group included, are answered Forbidden and leave
\* the item and its claim as they were; the statements that write or remove
\* an item run only for its owner.
C21_OwnerOnlyItemWrites ==
    [][/\ C21_ItemCall =>
            \A i \in wishlistItem, u \in Users, p \in Procs :
              u # i.userId =>
                /\ \A body \in PatchBodies :
                      UpdateItemAs(p, u, i.id, body) =>
                          (resp'.error = "Forbidden" /\ C21_NothingChanges)
                /\ DeleteItemAs(p, u, i.id) =>
                      (resp'.error = "Forbidden" /\ C21_NothingChanges)
       /\ \A i \in wishlistItem \ wishlistItem' :
            \E p \in Procs : /\ req[p].op \in {"updateItem", "deleteItem"}
                             /\ req'[p] = IdleReq
                             /\ req[p].itemId = i.id /\ req[p].userId = i.userId]_vars

\* the ADMIN of the group is refused on the only item, which a MEMBER owns and
\* somebody has claimed
C21_Witness ==
    /\ resp.op \in {"updateItem", "deleteItem"} /\ resp.error = "Forbidden"
    /\ HoldsAdminRole(resp.userId, resp.groupId)
    /\ Cardinality(wishlistItem) = 1 /\ Cardinality(giftClaim) = 1
    /\ \A i \in wishlistItem : i.groupId = resp.groupId /\ i.userId # resp.userId

\* a successful listing shows every stored item of the group with its stored
\* title, url and notes; an item without a stored claim shows no claim, a
\* claimed item shows the claimer to a caller who is not its owner and a
\* claim without the claimer to its owner
C22_ListingShowsStoredRows ==
    (resp.op = "listWishlist" /\ resp.error = "OK") =>
        \A i \in wishlistItem :
            i.groupId = resp.groupId =>
                \E k \in DOMAIN resp.items :
                    LET shown == resp.items[k] IN
                    /\ shown.id = i.id
                    /\ shown.title = i.title /\ shown.url = i.url /\ shown.notes = i.notes
                    /\ (ClaimOf(i.id) = {}) = (shown.claim = Null)
                    /\ \A c \in ClaimOf(i.id) :
                          IF i.userId = resp.userId
                          THEN /\ shown.claim # Null
                               /\ "claimedById" \notin DOMAIN shown.claim
                               /\ "claimedBy" \notin DOMAIN shown.claim
                          ELSE /\ "claimedById" \in DOMAIN shown.claim
                               /\ shown.claim.claimedById = c.claimedById
                               /\ shown.claim.claimedBy = UserView(c.claimedById)

C23_GenerateReplacesAll ==
    [][\A p \in Procs :
        GenerateFindMany(p) =>
            LET g == req[p].groupId
                stored == {a \in assignment' : a.groupId = g}
            IN /\ resp'.error = "OK"
               /\ resp'.assignments = {AdminView(a) : a \in stored}
               /\ \E cycle \in Circles(g, req[p].memberIds) :
                     /\ stored = cycle
                     /\ \A a \in req[p].before : a \in assignment' => a \in cycle]_vars

\* a generate has written its cycle over a group that held two assignments:
\* one pair is in the new cycle and still stored, the other is gone
C23_Witness ==
    \E p \in Procs :
        /\ req[p].op = "generate" /\ req[p].pc = "findMany"
        /\ \E a \in req[p].before : a \notin assignment
        /\ \E a \in req[p].before : a \in assignment

\* C24: a createManual by an ADMIN with a giver other than the receiver is an
\* upsert on (groupId, giverId): afterwards the key has exactly one row, with
\* the receiver of the request; a key that had a row gets no second row, a
\* key that had none gets one new row; the rows of every other key are
\* untouched; the same call again would leave the table as it is.
C24_CreateManualIsUpsert ==
    [][(resp'.op = "createManual" /\ resp'.error = "OK") =>
        \A u \in Users, g \in Groups, giverId \in Users, receiverId \in Users :
            CreateManualAs(u, g, giverId, receiverId) =>
                LET key(a) == a.groupId = g /\ a.giverId = giverId
                    row == [groupId |-> g, giverId |-> giverId, receiverId |-> receiverId]
                IN /\ {a \in assignment' : key(a)} = {row}
                   /\ {a \in assignment' : ~key(a)} = {a \in assignment : ~key(a)}
                   /\ Cardinality(assignment') =
                        IF \E a \in assignment : key(a) THEN Cardinality(assignment)
                        ELSE Cardinality(assignment) + 1
                   /\ row \in assignment => assignment' = assignment
                   /\ Upsert(assignment', g, giverId, receiverId) = assignment']_vars

\* a createManual has succeeded on a group that holds the row of another
\* giver as well, and the receiver of the request has a row of their own
C24_Witness ==
    /\ resp.op = "createManual" /\ resp.error = "OK"
    /\ \E a \in AssignmentsOf(resp.groupId) :
          /\ AdminView(a) \in resp.assignments
          /\ \E b \in AssignmentsOf(resp.groupId) : b.giverId = a.receiverId
          /\ Cardinality(AssignmentsOf(resp.groupId)) >= 2

C26_Ids(items) == [k \in DOMAIN items |-> items[k].id]

C27_ClaimerIsGroupMember ==
    \A c \in giftClaim :
        \A i \in wishlistItem :
            i.id = c.itemId => HoldsMembership(c.claimedById, i.groupId)

\* a generate on group g has deleted the rows and not yet written its own
C28_BetweenDeleteAndInsert(g) ==
    \E p \in Procs :
        req[p].op = "generate" /\ req[p].groupId = g /\ req[p].pc = "createMany"

\* the cycles a generate can build over the members that had joined group g
\* when it read them (memberships are only ever added, at the end)
C28_CyclesOf(g) ==
    UNION {Circles(g, SubSeq(MemberIds(g), 1, n)) : n \in 2..Len(MemberIds(g))}

\* C28: with generate calls on a group interleaving their delete and insert
\* steps in any order, once no call stands between its delete and its insert
\* the group's stored assignments are the complete single cycle that one
\* call wrote (never rows of two calls, never part of a cycle), and they are
\* not empty when a generate has just answered.
C28_OneCallsCycle ==
    \A g \in DOMAIN group :
        ~C28_BetweenDeleteAndInsert(g) =>
            /\ AssignmentsOf(g) = {} \/ AssignmentsOf(g) \in C28_CyclesOf(g)
            /\ (resp.op = "generate" /\ resp.groupId = g
                    /\ resp.error \in {"OK", "Internal"}) => AssignmentsOf(g) # {}

\* two generate calls on a group of three have interleaved and both are over:
\* the second to insert was refused and the stored rows are the other's cycle
C28_Witness ==
    /\ resp.op = "generate" /\ resp.error = "Internal"
    /\ \A p \in Procs : req[p].pc = "idle"
    /\ Cardinality(AssignmentsOf(resp.groupId)) = 3
    /\ AssignmentsOf(resp.groupId) \in C28_CyclesOf(resp.groupId)

\* the positions of the ADMIN memberships of group g
C29_AdminRows(g) ==
    {k \in DOMAIN groupMembership :
        groupMembership[k].groupId = g /\ groupMembership[k].role = "ADMIN"}

\* each group has one ADMIN membership, its creator's
C29_AdminIsCreator ==
    \A g \in DOMAIN group :
        /\ Cardinality(C29_AdminRows(g)) = 1
        /\ \A k \in C29_AdminRows(g) : groupMembership[k].userId = group[g].createdById

\* C29: every group has exactly one ADMIN membership, that of the user who
\* created it; a join that succeeds adds one membership, of the caller in the
\* joined group with role MEMBER; no step changes or removes a membership
\* that is stored, and no step changes who created a group.
C29_OneAdminTheCreator ==
    [][/\ C29_AdminIsCreator'
       /\ \A g \in DOMAIN group : group'[g].createdById = group[g].createdById
       /\ Len(groupMembership') >= Len(groupMembership)
       /\ \A k \in DOMAIN groupMembership : groupMembership'[k] = groupMembership[k]
       /\ \A p \in Procs :
            (req[p].op = "join" /\ req'[p] = IdleReq /\ resp'.error = "OK") =>
                /\ Len(groupMembership') = Len(groupMembership) + 1
                /\ groupMembership'[Len(groupMembership')] =
                      [userId |-> req[p].userId, groupId |-> req[p].groupId,
                       role |-> "MEMBER"]]_vars

\* a second user has joined a group: it holds its creator as ADMIN and two
\* MEMBER rows
C29_Witness ==
    /\ resp.op = "join" /\ resp.error = "OK"
    /\ Cardinality({k \in DOMAIN groupMembership :
            groupMembership[k].groupId = resp.groupId}) = 3
    /\ \E k \in DOMAIN groupMembership :
            /\ groupMembership[k].groupId = resp.groupId
            /\ groupMembership[k].userId = resp.userId
            /\ groupMembership[k].role = "MEMBER"

\* C30: an item keeps its owner, its group and its creation time for as long
\* as it is stored; the update statement of updateItem writes, on the one
\* item, the fields of the request among title, url, imageUrl, notes and
\* priority, and leaves every other field of it, every other item and every
\* claim as they were.
C30_UpdateWritesContentOnly ==
    [][/\ \A i \in wishlistItem, j \in wishlistItem' :
            i.id = j.id =>
                /\ j.userId = i.userId /\ j.groupId = i.groupId
                /\ j.createdAt = i.createdAt
       /\ \A p \in Procs :
            (req[p].op = "updateItem" /\ req'[p] = IdleReq /\ resp'.error = "OK") =>
                /\ giftClaim' = giftClaim
                /\ {j.id : j \in wishlistItem'} = {i.id : i \in wishlistItem}
                /\ \A i \in wishlistItem, j \in wishlistItem' :
                      i.id = j.id =>
                        /\ DOMAIN j = DOMAIN i
                        /\ \A k \in DOMAIN i :
                              j[k] # i[k] =>
                                /\ i.id = req[p].itemId
                                /\ k \in SchemaKeys
                                /\ k \in DOMAIN req[p].data
                                /\ j[k] = req[p].data[k]
                /\ \A j \in wishlistItem' :
                      j.id = req[p].itemId =>
                          \A k \in DOMAIN req[p].data \cap SchemaKeys :
                              j[k] = req[p].data[k]]_vars

\* the owner has changed the title of a claimed item: the url is the one the
\* item was created with and the claim is still stored
C30_Witness ==
    /\ resp.op = "updateItem" /\ resp.error = "OK"
    /\ \E i \in wishlistItem :
          /\ i.userId = resp.userId
          /\ i.title = Text("title", 0) /\ i.url = Text("url", 1)
          /\ ClaimOf(i.id) # {}
====
